---- MODULE Spec2Model ----
(***************************************************************************)
(* A model of the job-digest pipeline: scraper.py (site list loading,      *)
(* strategy selection, the two fetch strategies, the scrape loop) and      *)
(* digest.py (extraction of job records from a model response, the plain   *)
(* text digest, the mailer and the run driver).                            *)
(*                                                                         *)
(* Strings the code inspects character by character (site list lines,      *)
(* URLs, the JS-required domains) are sequences of one-character strings.  *)
(* Company names, which the code sorts and upper-cases, are sequences of   *)
(* code points.                                                            *)
(***************************************************************************)
EXTENDS Integers, Sequences, FiniteSets, TLC

VARIABLES
    pc,          \* position of the running program
    file,        \* job_sites.txt: a sequence of lines, each a character sequence
    urls,        \* scrape_all: the URLs kept from the file
    i,           \* scrape_all: index of the URL the loop is at
    content,     \* scrape_all: what the last fetch returned
    results,     \* scrape_all: the pages collected so far
    events,      \* the fetch attempts and sleeps of scrape_all, in order
    playwright,  \* the sync_playwright() driver: "stopped" or "running"
    browser,     \* the browser of the current rendering fetch: "none", "open", "closed"
    pwFailed,    \* the step at which the current rendering fetch raised, or "no"
    day,           \* the clock: the date datetime.now() gives
    scraped_pages, \* main: what scrape_all returned
    p,             \* main: index of the page the extraction loop is at
    extracted,     \* per extracted page: the reply received and the jobs returned
    all_jobs,      \* main: the accumulated job list
    html_content,  \* main: the digest built, a sequence of lines (empty until built)
    groups,        \* build_email_html: sorted(by_company.items())
    creds,         \* send_email: the credentials loaded, or None
    submissions,   \* every invocation of the mail service's send operation
    raised         \* the exception that ended the run, or "no"

scrapeState == <<file, urls, i, content, results, events, playwright, browser, pwFailed>>

scrapeVars == <<pc, scrapeState>>

digestVars ==
    <<day, scraped_pages, p, extracted, all_jobs, html_content, groups, creds,
      submissions, raised>>

vars == <<scrapeVars, digestVars>>

---------------------------------------------------------------------------
(* Bounds *)

\* Longest site list file, in lines, when scraper.py runs alone.
MaxLines == 3

\* Longest site list file, in lines, of a whole digest run.
MaxSites == 2

\* Most values in the JSON array of a model reply.
MaxItems == 2

\* Longest job list handed to build_email_html.
MaxJobs == 3

\* Last date the clock reaches.
MaxDay == 2

---------------------------------------------------------------------------
(* scraper.py: constants *)

\* None, the failure signal of both fetch strategies.
None == "None"

JS_REQUIRED_SITES ==
    << <<"a","p","p","l","e",".","c","o","m">>,
       <<"a","m","a","z","o","n",".","j","o","b","s">>,
       <<"t","i","k","t","o","k",".","c","o","m">>,
       <<"m","e","t","a","c","a","r","e","e","r","s",".","c","o","m">>,
       <<"c","a","r","e","e","r","s",".","g","o","o","g","l","e",".","c","o","m">>,
       <<"s","n","a","p",".","c","o","m">>,
       <<"u","b","e","r",".","c","o","m">>,
       <<"c","a","r","e","e","r","s",".","t","u","b","i",".","t","v">> >>

\* time.sleep(2): seconds slept after each attempt.
Delay == 2

---------------------------------------------------------------------------
(* The site list files the model reads *)

LineBlank == <<"\n">>
LineSpaces == <<" ","\n">>
LineComment == <<"#","c","\n">>
LineIndentedComment == <<" ","#","c","\n">>
LinePlain == <<"h","t","t","p",":","/","/","x",".","i","o","/","j","\n">>
LineJs == <<"h","t","t","p",":","/","/","u","b","e","r",".","c","o","m","/","j","\n">>
LineQuery == <<" ","h","t","t","p",":","/","/","x",".","i","o","/","?","u","b","e","r",".","c","o","m","\n">>

FileLines ==
    {LineBlank, LineSpaces, LineComment, LineIndentedComment, LinePlain, LineJs, LineQuery}

SeqsUpTo(S, n) == UNION {[1..k -> S] : k \in 0..n}

Files == SeqsUpTo(FileLines, MaxLines)

---------------------------------------------------------------------------
(* Python string operations used by scraper.py *)

Whitespace == {" ", "\n", "\t"}

\* str.strip(): drop leading and trailing whitespace.
RECURSIVE LStrip(_)
LStrip(s) ==
    IF s # <<>> /\ Head(s) \in Whitespace THEN LStrip(Tail(s)) ELSE s

RECURSIVE RStrip(_)
RStrip(s) ==
    IF s # <<>> /\ s[Len(s)] \in Whitespace THEN RStrip(SubSeq(s, 1, Len(s) - 1)) ELSE s

Strip(s) == RStrip(LStrip(s))

\* str.startswith(prefix)
StartsWith(s, prefix) ==
    /\ Len(prefix) <= Len(s)
    /\ SubSeq(s, 1, Len(prefix)) = prefix

\* (sub in s) on strings: sub occurs somewhere in s.
Contains(s, sub) ==
    \E k \in 0..(Len(s) - Len(sub)) : SubSeq(s, k + 1, k + Len(sub)) = sub

\* A URL requests and the browser can fetch names a scheme; requests raises
\* MissingSchema for anything else, and page.goto rejects it.
HasScheme(url) == StartsWith(url, <<"h","t","t","p",":","/","/">>)

---------------------------------------------------------------------------
(* scraper.py *)

\* needs_javascript(url)
needs_javascript(url) ==
    \E d \in 1..Len(JS_REQUIRED_SITES) : Contains(url, JS_REQUIRED_SITES[d])

\* The filter of the list comprehension in scrape_all.
KeepLine(line) == Strip(line) # <<>> /\ ~StartsWith(line, <<"#">>)

\* urls = [line.strip() for line in f if line.strip() and not line.startswith("#")]
ReadUrls(f) ==
    LET kept == SelectSeq(f, KeepLine)
    IN  [k \in 1..Len(kept) |-> Strip(kept[k])]

\* Mutant: the test is (content is not None).
Truthy_NotNone(c) == c # None

\* Python truthiness of a fetch result: None and the empty string are falsy.
Truthy(c) == c # None /\ c # ""

\* The page texts a successful fetch returns (after get_text and text[:8000]).
PageTexts == {"", "text"}

\* The observable steps of scrape_all, logged in order: a fetch is called, it
\* returns, the loop sleeps.
FetchEvent(url, strategy) ==
    [ev |-> "fetch", url |-> url, strategy |-> strategy, content |-> None, secs |-> 0]

ReturnEvent(url, c) ==
    [ev |-> "return", url |-> url, strategy |-> "-", content |-> c, secs |-> 0]

SleepEvent == [ev |-> "sleep", url |-> <<>>, strategy |-> "-", content |-> None, secs |-> Delay]

\* with open(url_file) ... : read the site list.
ReadSiteList ==
    /\ pc = "start"
    /\ urls' = ReadUrls(file)
    /\ results' = <<>>
    /\ i' = 1
    /\ pc' = "loop"
    /\ UNCHANGED <<file, content, events, playwright, browser, pwFailed, digestVars>>

\* for url in urls: if needs_javascript(url): ... else: ...
SelectStrategy ==
    /\ pc = "loop"
    /\ i <= Len(urls)
    /\ IF needs_javascript(urls[i])
       THEN /\ events' = Append(events, FetchEvent(urls[i], "playwright"))
            /\ pc' = "pw_enter"
       ELSE /\ events' = Append(events, FetchEvent(urls[i], "requests"))
            /\ pc' = "requests"
    /\ browser' = "none"
    /\ pwFailed' = "no"
    /\ UNCHANGED <<file, urls, i, content, results, playwright, digestVars>>

\* scrape_with_requests(url): the text, or None on any exception.
scrape_with_requests ==
    /\ pc = "requests"
    /\ \E outcome \in {None} \cup PageTexts :
          /\ (~HasScheme(urls[i])) => outcome = None
          /\ content' = outcome
          /\ events' = Append(events, ReturnEvent(urls[i], outcome))
    /\ pc' = "collect"
    /\ UNCHANGED <<file, urls, i, results, playwright, browser, pwFailed, digestVars>>

\* Mutant: the driver is started without the with block and never stopped.
PlaywrightStop_Leak(b) == b

\* What leaving the block of (with sync_playwright() as p) does to a browser the driver
\* launched: stopping the driver closes it.
PlaywrightStop(b) == IF b = "open" THEN "closed" ELSE b

\* from playwright.sync_api import sync_playwright; with sync_playwright() as p:
PwEnter ==
    /\ pc = "pw_enter"
    /\ \E ok \in BOOLEAN :
          IF ok
          THEN /\ playwright' = "running"
               /\ pc' = "pw_launch"
               /\ UNCHANGED pwFailed
          ELSE /\ pwFailed' = "enter"
               /\ pc' = "pw_except"
               /\ UNCHANGED playwright
    /\ UNCHANGED <<file, urls, i, content, results, events, browser, digestVars>>

\* browser = p.chromium.launch(headless=True)
PwLaunch ==
    /\ pc = "pw_launch"
    /\ \E ok \in BOOLEAN :
          IF ok
          THEN /\ browser' = "open"
               /\ pc' = "pw_new_page"
               /\ UNCHANGED pwFailed
          ELSE /\ pwFailed' = "launch"
               /\ pc' = "pw_unwind"
               /\ UNCHANGED browser
    /\ UNCHANGED <<file, urls, i, content, results, events, playwright, digestVars>>

PwPageSteps == <<"pw_new_page", "pw_headers", "pw_goto", "pw_content", "pw_close">>

\* page = browser.new_page(); page.set_extra_http_headers(HEADERS);
\* page.goto(url, ...); content = page.content(): each may raise.
PwPageStep ==
    /\ \E k \in 1..4 :
          /\ pc = PwPageSteps[k]
          /\ \E ok \in BOOLEAN :
                /\ (PwPageSteps[k] = "pw_goto" /\ ~HasScheme(urls[i])) => ~ok
                /\ IF ok
                   THEN /\ pc' = PwPageSteps[k + 1]
                        /\ UNCHANGED pwFailed
                   ELSE /\ pwFailed' = PwPageSteps[k]
                        /\ pc' = "pw_unwind"
    /\ UNCHANGED <<file, urls, i, content, results, events, playwright, browser, digestVars>>

\* browser.close()
PwClose ==
    /\ pc = "pw_close"
    /\ \E ok \in BOOLEAN :
          IF ok
          THEN /\ browser' = "closed"
               /\ pc' = "pw_exit"
               /\ UNCHANGED pwFailed
          ELSE /\ pwFailed' = "pw_close"
               /\ pc' = "pw_unwind"
               /\ UNCHANGED browser
    /\ UNCHANGED <<file, urls, i, content, results, events, playwright, digestVars>>

\* The with block is left normally.
PwExit ==
    /\ pc = "pw_exit"
    /\ playwright' = "stopped"
    /\ browser' = PlaywrightStop(browser)
    /\ pc' = "pw_soup"
    /\ UNCHANGED <<file, urls, i, content, results, events, pwFailed, digestVars>>

\* The with block is left by an exception.
PwUnwind ==
    /\ pc = "pw_unwind"
    /\ playwright' = "stopped"
    /\ browser' = PlaywrightStop(browser)
    /\ pc' = "pw_except"
    /\ UNCHANGED <<file, urls, i, content, results, events, pwFailed, digestVars>>

\* soup = BeautifulSoup(content, ...); ...; return text[:8000]
PwSoup ==
    /\ pc = "pw_soup"
    /\ \E ok \in BOOLEAN :
          IF ok
          THEN /\ \E text \in PageTexts :
                     /\ content' = text
                     /\ events' = Append(events, ReturnEvent(urls[i], text))
               /\ pc' = "collect"
               /\ UNCHANGED pwFailed
          ELSE /\ pwFailed' = "soup"
               /\ pc' = "pw_except"
               /\ UNCHANGED <<content, events>>
    /\ UNCHANGED <<file, urls, i, results, playwright, browser, digestVars>>

\* except Exception as e: logger.warning(...); return None
PwExcept ==
    /\ pc = "pw_except"
    /\ content' = None
    /\ events' = Append(events, ReturnEvent(urls[i], None))
    /\ pc' = "collect"
    /\ UNCHANGED <<file, urls, i, results, playwright, browser, pwFailed, digestVars>>

\* if content: results.append({"url": url, "content": content}) else: warn
Collect ==
    /\ pc = "collect"
    /\ results' = IF Truthy(content)
                  THEN Append(results, [url |-> urls[i], content |-> content])
                  ELSE results
    /\ pc' = "sleep"
    /\ UNCHANGED <<file, urls, i, content, events, playwright, browser, pwFailed, digestVars>>

\* Mutant: the sleep sits in the branch that appends a page.
Sleep_OnSuccessOnly ==
    /\ pc = "sleep"
    /\ events' = IF Truthy(content) THEN Append(events, SleepEvent) ELSE events
    /\ i' = i + 1
    /\ pc' = "loop"
    /\ UNCHANGED <<file, urls, content, results, playwright, browser, pwFailed, digestVars>>

\* time.sleep(2), then the next URL
Sleep ==
    /\ pc = "sleep"
    /\ events' = Append(events, SleepEvent)
    /\ i' = i + 1
    /\ pc' = "loop"
    /\ UNCHANGED <<file, urls, content, results, playwright, browser, pwFailed, digestVars>>

\* scraper.py run as a script: results = scrape_all(); print each page.
ScraperMain ==
    /\ pc = "loop"
    /\ i > Len(urls)
    /\ pc' = "done"
    /\ UNCHANGED <<file, urls, i, content, results, events, playwright, browser, pwFailed, digestVars>>


---------------------------------------------------------------------------
(* JSON values and texts, as digest.py's json.loads sees them *)

\* A Python value parsed from JSON, tagged with its type.
Dict(fields) == [type |-> "dict", v |-> fields]
Num(n) == [type |-> "num", v |-> n]
List(items) == [type |-> "list", v |-> items]

\* Company names, as code points.
Acme == <<65, 99, 109, 101>>
AcmeLower == <<97, 99, 109, 101>>
Zeta == <<90, 101, 116, 97>>
Unknown == <<85, 110, 107, 110, 111, 119, 110>>

JobPM ==
    Dict([title |-> "PM", company |-> Acme, location |-> "Remote",
          url |-> "http://a", summary |-> "x"])
JobSrPM ==
    Dict([title |-> "Sr PM", company |-> Acme, location |-> "NYC",
          url |-> "http://b", summary |-> "y"])
JobNoCompany == Dict([title |-> "PM", location |-> "Remote"])
JobLower == Dict([title |-> "APM", company |-> AcmeLower, summary |-> "z"])
JobUnknown == Dict([title |-> "GPM", company |-> Unknown, url |-> "http://u"])
JobZeta == Dict([title |-> "Principal PM", company |-> Zeta, location |-> "SF"])

\* A model reply is a sequence of tokens: punctuation, whitespace, code-fence
\* markers, words of prose, and literals, each literal standing for the JSON
\* text of one value.
Literals == {"{PM}", "{SrPM}", "{NoCompany}", "7"}

LiteralValue(tok) ==
    CASE tok = "{PM}" -> JobPM
      [] tok = "{SrPM}" -> JobSrPM
      [] tok = "{NoCompany}" -> JobNoCompany
      [] tok = "7" -> Num(7)

\* The code-fence markers: three backticks followed by json, and three backticks.
FenceJson == "<fence>json"
Fence == "<fence>"

\* str.replace(marker, ""): drop every occurrence of a marker.
Remove(text, marker) == SelectSeq(text, LAMBDA tok : tok # marker)

ParseFail == [ok |-> FALSE, value |-> Num(0), next |-> 0]

\* json.loads on the tokens that are not whitespace: a value is a literal or
\* an array of values; anything else, or text after the value, is an error.
RECURSIVE ParseValue(_, _)
RECURSIVE ParseItems(_, _, _)
ParseValue(t, k) ==
    IF k > Len(t) THEN ParseFail
    ELSE IF t[k] \in Literals
         THEN [ok |-> TRUE, value |-> LiteralValue(t[k]), next |-> k + 1]
    ELSE IF t[k] = "["
         THEN IF k + 1 <= Len(t) /\ t[k + 1] = "]"
              THEN [ok |-> TRUE, value |-> List(<<>>), next |-> k + 2]
              ELSE ParseItems(t, k + 1, <<>>)
    ELSE ParseFail

ParseItems(t, k, acc) ==
    LET item == ParseValue(t, k)
    IN  IF ~item.ok \/ item.next > Len(t) THEN ParseFail
        ELSE IF t[item.next] = ","
             THEN ParseItems(t, item.next + 1, Append(acc, item.value))
        ELSE IF t[item.next] = "]"
             THEN [ok |-> TRUE, value |-> List(Append(acc, item.value)),
                   next |-> item.next + 1]
        ELSE ParseFail

json_loads(text) ==
    LET t == SelectSeq(text, LAMBDA tok : tok \notin Whitespace)
        r == ParseValue(t, 1)
    IN  IF r.ok /\ r.next = Len(t) + 1 THEN r ELSE ParseFail

\* Mutant: only the fence marker with the language tag is removed.
ParseJobs_KeepFence(response) ==
    IF response.content = <<>> THEN <<>>
    ELSE LET text == Strip(Remove(Strip(response.content[1]), FenceJson))
             jobs == json_loads(text)
         IN  IF jobs.ok /\ jobs.value.type = "list" THEN jobs.value.v ELSE <<>>

\* The try block of extract_jobs_from_page, on the response received:
\*   text = response.content[0].text.strip()
\*   text = text.replace(<fence>json, "").replace(<fence>, "").strip()
\*   jobs = json.loads(text)
\*   return jobs if isinstance(jobs, list) else []
\* An empty response.content raises IndexError, caught like a parse error.
ParseJobs(response) ==
    IF response.content = <<>> THEN <<>>
    ELSE LET text == Strip(Remove(Remove(Strip(response.content[1]), FenceJson), Fence))
             jobs == json_loads(text)
         IN  IF jobs.ok /\ jobs.value.type = "list" THEN jobs.value.v ELSE <<>>

---------------------------------------------------------------------------
(* digest.py: build_email_html *)

\* job.get(key, default)
Get(job, key, default) == IF key \in DOMAIN job.v THEN job.v[key] ELSE default

\* The loop that fills by_company, a dict: its items in insertion order.
RECURSIVE GroupJobs(_, _)
GroupJobs(jobs, by_company) ==
    IF jobs = <<>> THEN by_company
    ELSE LET job == Head(jobs)
             company == Get(job, "company", Unknown)
             at == {k \in 1..Len(by_company) : by_company[k].company = company}
         IN  GroupJobs(Tail(jobs),
                 IF at = {}
                 THEN Append(by_company, [company |-> company, jobs |-> <<job>>])
                 ELSE [by_company EXCEPT ![CHOOSE k \in at : TRUE].jobs = Append(@, job)])

\* a < b on Python strings: by code point, a proper prefix first.
RECURSIVE StrLess(_, _)
StrLess(a, b) ==
    IF b = <<>> THEN FALSE
    ELSE IF a = <<>> THEN TRUE
    ELSE IF Head(a) # Head(b) THEN Head(a) < Head(b)
    ELSE StrLess(Tail(a), Tail(b))

\* Mutant: the items are iterated unsorted.
SortedItems_Unsorted(items) == items

\* sorted(by_company.items()): the keys are distinct, so the key decides.
RECURSIVE SortedItems(_)
SortedItems(items) ==
    IF items = <<>> THEN <<>>
    ELSE LET item == items[Len(items)]
             rest == SortedItems(SubSeq(items, 1, Len(items) - 1))
         IN  SelectSeq(rest, LAMBDA x : ~StrLess(item.company, x.company))
             \o <<item>>
             \o SelectSeq(rest, LAMBDA x : StrLess(item.company, x.company))

\* str.upper()
Upper(name) ==
    [k \in 1..Len(name) |-> IF name[k] >= 97 /\ name[k] <= 122 THEN name[k] - 32 ELSE name[k]]

\* The lines of a digest.
Line(kind, text, name, date, n) ==
    [kind |-> kind, text |-> text, name |-> name, date |-> date, n |-> n]

Blank == Line("text", "", <<>>, 0, 0)
Footer == Line("text", "-- Your Job Digest Bot", <<>>, 0, 0)
NoRolesLine ==
    Line("text", "No matching Senior PM or Principal PM roles found today.", <<>>, 0, 0)

\* "=" * 50 and the box-drawing rule * 40
RuleWidth == 50
GroupRuleWidth == 40

JobLines(job) ==
    << Line("title", Get(job, "title", ""), <<>>, 0, 0),
       Line("location", Get(job, "location", ""), <<>>, 0, 0),
       Line("summary", Get(job, "summary", ""), <<>>, 0, 0),
       Line("url", Get(job, "url", ""), <<>>, 0, 0),
       Blank >>

RECURSIVE Flatten(_)
Flatten(ss) == IF ss = <<>> THEN <<>> ELSE Head(ss) \o Flatten(Tail(ss))

GroupLines(group) ==
    << Line("company", "", Upper(group.company), 0, 0),
       Line("rule", "-", <<>>, 0, GroupRuleWidth) >>
    \o Flatten([k \in 1..Len(group.jobs) |-> JobLines(group.jobs[k])])
    \o <<Blank>>

\* The digest of a non-empty job list: lines 73-99.
RenderRoles(jobs, today) ==
    IF \E k \in 1..Len(jobs) : jobs[k].type # "dict"
    THEN [raised |-> TRUE, groups |-> <<>>, lines |-> <<>>]
    ELSE LET sorted == SortedItems(GroupJobs(jobs, <<>>))
         IN  [raised |-> FALSE, groups |-> sorted,
              lines |-> << Line("heading_roles", "Job Digest", <<>>, today, Len(jobs)),
                           Line("rule", "=", <<>>, 0, RuleWidth), Blank >>
                        \o Flatten([g \in 1..Len(sorted) |-> GroupLines(sorted[g])])
                        \o <<Footer>>]

\* Mutant: the test for an empty job list is missing.
build_email_html_NoEmptyCase(jobs, today) == RenderRoles(jobs, today)

\* build_email_html(all_jobs) on the date today: the lines of the digest
\* and the sorted groups it iterates; job.get on a value that is no dict
\* raises AttributeError.
build_email_html(jobs, today) ==
    IF jobs = <<>>
    THEN [raised |-> FALSE, groups |-> <<>>,
          lines |-> << Line("heading", "Job Digest", <<>>, today, 0), Blank,
                       NoRolesLine, Blank, Footer >>]
    ELSE RenderRoles(jobs, today)

---------------------------------------------------------------------------
(* The replies of the text-generation service *)

\* json.dumps of an array of literals.
RECURSIVE RenderItems(_)
RenderItems(items) ==
    IF items = <<>> THEN <<>>
    ELSE IF Len(items) = 1 THEN <<items[1]>>
    ELSE <<items[1], ",", " ">> \o RenderItems(Tail(items))

RenderArray(items) == <<"[">> \o RenderItems(items) \o <<"]">>

\* The ways a reply wraps a JSON text that leave it JSON once the fence
\* markers are removed, and the ways that do not.
Wrap(style, t) ==
    CASE style = "bare" -> t
      [] style = "padded" -> <<"\n", " ">> \o t \o <<"\n">>
      [] style = "fenced_json" -> <<FenceJson, "\n">> \o t \o <<"\n", Fence>>
      [] style = "fenced" -> <<Fence, "\n">> \o t \o <<"\n", Fence>>
      [] style = "prose" -> <<"Here", " ">> \o t
      [] style = "truncated" -> SubSeq(t, 1, Len(t) - 1)

JsonStyles == {"bare", "padded", "fenced_json", "fenced"}
BrokenStyles == {"prose", "truncated"}

\* A reply: what it is (kind), the array it denotes (payload, for an array)
\* and the response object the client returns.
Reply(kind, payload, text) ==
    [kind |-> kind, payload |-> payload, response |-> [content |-> <<text>>]]

ValuesOf(items) == [k \in 1..Len(items) |-> LiteralValue(items[k])]

ArrayReplies ==
    {Reply("array", ValuesOf(items), Wrap(style, RenderArray(items))) :
        items \in SeqsUpTo(Literals, MaxItems), style \in JsonStyles}

NonArrayReplies ==
    {Reply("not_array", <<>>, Wrap(style, <<lit>>)) : lit \in Literals, style \in JsonStyles}

InvalidReplies ==
    {Reply("invalid", <<>>, Wrap(style, RenderArray(items))) :
        items \in SeqsUpTo(Literals, MaxItems), style \in BrokenStyles}
    \cup {Reply("invalid", <<>>, <<>>), Reply("invalid", <<>>, <<"[", "{PM}", ",", "]">>)}
    \cup {[kind |-> "invalid", payload |-> <<>>, response |-> [content |-> <<>>]]}

Replies == ArrayReplies \cup NonArrayReplies \cup InvalidReplies

\* The replies of a whole digest run.
RunReplies ==
    { Reply("array", <<>>, <<"[", "]">>),
      Reply("array", <<JobPM>>, Wrap("fenced_json", RenderArray(<<"{PM}">>))),
      Reply("array", <<JobNoCompany, JobSrPM>>, RenderArray(<<"{NoCompany}", "{SrPM}">>)),
      Reply("array", <<Num(7)>>, RenderArray(<<"7">>)),
      Reply("not_array", <<>>, <<"{PM}">>),
      Reply("invalid", <<>>, Wrap("prose", RenderArray(<<"{PM}">>))) }

\* client.messages.create raised (connection, authentication, rate limit).
ApiError == [kind |-> "api_error", payload |-> <<>>, response |-> [content |-> <<>>]]

---------------------------------------------------------------------------
(* digest.py: main and send_email *)

\* datetime.now() moves on.
Tick ==
    /\ pc \notin {"done", "crashed"}
    /\ day < MaxDay
    /\ day' = day + 1
    /\ UNCHANGED <<pc, scrapeState, scraped_pages, p, extracted, all_jobs, html_content,
                   groups, creds, submissions, raised>>

\* scraped_pages = scrape_all(); all_jobs = []
MainScraped ==
    /\ pc = "loop"
    /\ i > Len(urls)
    /\ scraped_pages' = results
    /\ all_jobs' = <<>>
    /\ p' = 1
    /\ pc' = "extract"
    /\ UNCHANGED <<scrapeState, day, extracted, html_content, groups, creds,
                   submissions, raised>>

\* jobs = extract_jobs_from_page(page["url"], page["content"]);
\* if jobs: all_jobs.extend(jobs)
\* client.messages.create is called outside the try block: what it raises
\* leaves extract_jobs_from_page and main.
ExtractPage ==
    /\ pc = "extract"
    /\ p <= Len(scraped_pages)
    /\ \E reply \in RunReplies \cup {ApiError} :
          IF reply.kind = "api_error"
          THEN /\ raised' = "extract"
               /\ pc' = "crashed"
               /\ extracted' = Append(extracted, [reply |-> reply, jobs |-> <<>>])
               /\ UNCHANGED <<p, all_jobs>>
          ELSE LET jobs == ParseJobs(reply.response)
               IN  /\ extracted' = Append(extracted, [reply |-> reply, jobs |-> jobs])
                   /\ all_jobs' = IF jobs # <<>> THEN all_jobs \o jobs ELSE all_jobs
                   /\ p' = p + 1
                   /\ UNCHANGED <<pc, raised>>
    /\ UNCHANGED <<scrapeState, day, scraped_pages, html_content, groups, creds, submissions>>

\* html_content = build_email_html(all_jobs)
BuildDigest ==
    /\ pc = "extract"
    /\ p > Len(scraped_pages)
    /\ LET built == build_email_html(all_jobs, day)
       IN  IF built.raised
           THEN /\ raised' = "build"
                /\ pc' = "crashed"
                /\ UNCHANGED <<html_content, groups>>
           ELSE /\ html_content' = built.lines
                /\ groups' = built.groups
                /\ pc' = "send"
                /\ UNCHANGED raised
    /\ UNCHANGED <<scrapeState, day, scraped_pages, p, extracted, all_jobs, creds, submissions>>

\* What GMAIL_CREDENTIALS may hold when send_email reads it.
CredentialBundles == {"missing", "malformed", "field_missing", "complete"}

\* creds_json = os.environ.get("GMAIL_CREDENTIALS"); creds_data =
\* json.loads(creds_json); creds = Credentials(token=creds_data["token"], ...)
\* json.loads(None) raises TypeError, json.loads of a malformed value raises
\* JSONDecodeError, a missing field raises KeyError.
LoadCredentials ==
    /\ pc = "send"
    /\ \E bundle \in CredentialBundles :
          IF bundle = "complete"
          THEN /\ creds' = "Credentials"
               /\ pc' = "send_service"
               /\ UNCHANGED raised
          ELSE /\ raised' = "credentials"
               /\ pc' = "crashed"
               /\ UNCHANGED creds
    /\ UNCHANGED <<scrapeState, day, scraped_pages, p, extracted, all_jobs, html_content,
                   groups, submissions>>

\* service = build("gmail", "v1", credentials=creds)
BuildService ==
    /\ pc = "send_service"
    /\ \E ok \in BOOLEAN :
          IF ok
          THEN /\ pc' = "send_submit"
               /\ UNCHANGED raised
          ELSE /\ raised' = "service"
               /\ pc' = "crashed"
    /\ UNCHANGED <<scrapeState, day, scraped_pages, p, extracted, all_jobs, html_content,
                   groups, creds, submissions>>

\* The MIME message send_email builds, before base64url encoding:
\* subject = f"Job Digest: {job_count} new PM roles - {today}"
Message(body, job_count, today) ==
    [to |-> "YOUR_EMAIL", from |-> "YOUR_EMAIL",
     subject |-> [job_count |-> job_count, date |-> today],
     body |-> body]

\* Mutant: a failed submission is tried again.
Submit_Retry ==
    /\ pc = "send_submit"
    /\ submissions' = Append(submissions, Message(html_content, Len(all_jobs), day))
    /\ \E ok \in BOOLEAN :
          IF ok \/ Len(submissions) >= 2
          THEN /\ pc' = "done"
               /\ UNCHANGED raised
          ELSE UNCHANGED <<pc, raised>>
    /\ UNCHANGED <<scrapeState, day, scraped_pages, p, extracted, all_jobs, html_content,
                   groups, creds>>

\* service.users().messages().send(userId="me", body={"raw": encoded}).execute()
\* called once by main with (html_content, len(all_jobs)); what it raises
\* leaves send_email and main.
Submit ==
    /\ pc = "send_submit"
    /\ submissions' = Append(submissions, Message(html_content, Len(all_jobs), day))
    /\ \E ok \in BOOLEAN :
          IF ok
          THEN /\ pc' = "done"
               /\ UNCHANGED raised
          ELSE /\ raised' = "send"
               /\ pc' = "crashed"
    /\ UNCHANGED <<scrapeState, day, scraped_pages, p, extracted, all_jobs, html_content,
                   groups, creds>>

---------------------------------------------------------------------------
(* The pure functions of digest.py, applied to inputs drawn from bounded sets *)

\* The try block of extract_jobs_from_page on one reply.
ParseReply ==
    /\ pc = "parse"
    /\ \E reply \in Replies :
          extracted' = <<[reply |-> reply, jobs |-> ParseJobs(reply.response)]>>
    /\ pc' = "parsed"
    /\ UNCHANGED <<scrapeState, day, scraped_pages, p, all_jobs, html_content, groups,
                   creds, submissions, raised>>

\* build_email_html on one job list.
RenderDigest ==
    /\ pc = "render"
    /\ LET built == build_email_html(all_jobs, day)
       IN  /\ html_content' = built.lines
           /\ groups' = built.groups
    /\ pc' = "rendered"
    /\ UNCHANGED <<scrapeState, day, scraped_pages, p, extracted, all_jobs, creds,
                   submissions, raised>>

JobRecords == {JobPM, JobSrPM, JobNoCompany, JobLower, JobUnknown, JobZeta}

JobLists == SeqsUpTo(JobRecords, MaxJobs)

---------------------------------------------------------------------------
(* Specifications *)

InitState ==
    /\ urls = <<>>
    /\ i = 1
    /\ content = None
    /\ results = <<>>
    /\ events = <<>>
    /\ playwright = "stopped"
    /\ browser = "none"
    /\ pwFailed = "no"
    /\ scraped_pages = <<>>
    /\ p = 1
    /\ extracted = <<>>
    /\ html_content = <<>>
    /\ groups = <<>>
    /\ creds = None
    /\ submissions = <<>>
    /\ raised = "no"

ScrapeStep ==
    \/ ReadSiteList
    \/ SelectStrategy
    \/ scrape_with_requests
    \/ PwEnter
    \/ PwLaunch
    \/ PwPageStep
    \/ PwClose
    \/ PwExit
    \/ PwUnwind
    \/ PwSoup
    \/ PwExcept
    \/ Collect
    \/ Sleep

\* python scraper.py
InitScraper ==
    /\ pc = "start"
    /\ file \in Files
    /\ day = 1
    /\ all_jobs = <<>>
    /\ InitState

NextScraper == ScrapeStep \/ ScraperMain

SpecScraper == InitScraper /\ [][NextScraper]_vars

\* python digest.py
RunLines == {LineComment, LineIndentedComment, LinePlain, LineJs}

InitRun ==
    /\ pc = "start"
    /\ file \in SeqsUpTo(RunLines, MaxSites)
    /\ day = 1
    /\ all_jobs = <<>>
    /\ InitState

NextRun ==
    \/ ScrapeStep
    \/ MainScraped
    \/ ExtractPage
    \/ BuildDigest
    \/ LoadCredentials
    \/ BuildService
    \/ Submit
    \/ Tick

Spec == InitRun /\ [][NextRun]_vars

\* extract_jobs_from_page's parsing, alone
InitParse ==
    /\ pc = "parse"
    /\ file = <<>>
    /\ day = 1
    /\ all_jobs = <<>>
    /\ InitState

SpecParse == InitParse /\ [][ParseReply]_vars

\* build_email_html, alone
InitRender ==
    /\ pc = "render"
    /\ file = <<>>
    /\ day \in 1..MaxDay
    /\ all_jobs \in JobLists
    /\ InitState

SpecRender == InitRender /\ [][RenderDigest]_vars

---------------------------------------------------------------------------
(* Properties of scrape_all and the fetch strategies *)

Indices(kind) == {k \in 1..Len(events) : events[k].ev = kind}

Returns == SelectSeq(events, LAMBDA e : e.ev = "return")

\* The pages a run of scrape_all should hold when it keeps exactly the
\* fetch results that satisfy Keep.
PagesKept(Keep(_)) ==
    LET kept == SelectSeq(Returns, LAMBDA e : Keep(e.content))
    IN  [k \in 1..Len(kept) |-> [url |-> kept[k].url, content |-> kept[k].content]]

NotNone(c) == c # None
NonEmptyText(c) == c # None /\ c # ""

\* Every URL before the loop index has been fetched exactly once, in order.
OneReturnPerUrl ==
    /\ i <= Len(urls) + 1
    /\ Len(Returns) = i - 1
    /\ \A k \in 1..(i - 1) : Returns[k].url = urls[k]
    /\ pc = "done" => i = Len(urls) + 1

\* C2 as stated: scrape_all returns, in file order, exactly one page for each
\* listed URL whose fetch returned content that is not None, a fetch that
\* returned empty text included, and none for a URL whose fetch returned None.
C2_PagePerNonNoneFetch ==
    pc \in {"loop", "done"} => OneReturnPerUrl /\ results = PagesKept(NotNone)

\* C2 amended: scrape_all returns, in file order, exactly one page for each
\* URL read from the site list whose fetch returned non-empty text, and none
\* for a URL whose fetch returned None or empty text; no fetch outcome makes
\* the call raise.
C2_PagePerNonEmptyFetch ==
    /\ pc \in {"loop", "done"} => OneReturnPerUrl /\ results = PagesKept(NonEmptyText)
    /\ raised = "no"

C2_Witness ==
    /\ pc = "done"
    /\ Len(urls) >= 2
    /\ \E k \in 1..Len(Returns) : Returns[k].content = ""
    /\ \E k \in 1..Len(Returns) : Returns[k].content = None
    /\ Len(results) >= 1

\* The host of a URL: what follows "://" up to the next "/", "?" or "#".
Host(url) ==
    LET seps == {k \in 1..(Len(url) - 2) : SubSeq(url, k, k + 2) = <<":", "/", "/">>}
        first == CHOOSE k \in seps : \A m \in seps : k <= m
        rest == IF seps = {} THEN <<>> ELSE SubSeq(url, first + 3, Len(url))
        ends == {k \in 1..Len(rest) : rest[k] \in {"/", "?", "#"}}
        stop == CHOOSE k \in ends : \A m \in ends : k <= m
    IN  IF ends = {} THEN rest ELSE SubSeq(rest, 1, stop - 1)

EndsWith(s, suffix) ==
    /\ Len(suffix) <= Len(s)
    /\ SubSeq(s, Len(s) - Len(suffix) + 1, Len(s)) = suffix

HostMatches(url) ==
    \E d \in 1..Len(JS_REQUIRED_SITES) :
        \/ Host(url) = JS_REQUIRED_SITES[d]
        \/ EndsWith(Host(url), <<".">> \o JS_REQUIRED_SITES[d])

\* C3: every fetch uses the rendering strategy if the host of the URL matches
\* a JS-required domain and the plain strategy otherwise, also when the path
\* or query of the URL contains a listed domain.
C3_StrategyByHost ==
    \A k \in Indices("fetch") :
        (events[k].strategy = "playwright") <=> HostMatches(events[k].url)

IsBlank(line) == Strip(line) = <<>>
IsComment(line) == StartsWith(LStrip(line), <<"#">>)

\* C4: for a site list in which every line is blank or a comment, a "#"
\* after leading whitespace included, scrape_all performs no fetch and
\* returns no page.
C4_CommentOnlyListFetchesNothing ==
    (\A k \in 1..Len(file) : IsBlank(file[k]) \/ IsComment(file[k]))
        => (Indices("fetch") = {} /\ results = <<>>)

PwInside ==
    {"pw_launch", "pw_new_page", "pw_headers", "pw_goto", "pw_content", "pw_close",
     "pw_exit", "pw_unwind"}

C10_DelayAfterEveryAttempt ==
    /\ \A a, b \in Indices("fetch") :
          a < b => \E c \in Indices("sleep") : a < c /\ c < b /\ events[c].secs = 2
    /\ pc \in {"loop", "done"} =>
          /\ Cardinality(Indices("sleep")) = Cardinality(Indices("fetch"))
          /\ Cardinality(Indices("fetch")) = i - 1
    /\ pc = "done" => Cardinality(Indices("sleep")) = Len(urls)

C10_Witness ==
    /\ pc = "done"
    /\ \E a, b \in Indices("fetch") :
          /\ events[a].strategy = "playwright"
          /\ events[b].strategy = "requests"
    /\ \E k \in 1..Len(Returns) : Returns[k].content = None
    /\ \E k \in 1..Len(Returns) : Returns[k].content = "text"

---------------------------------------------------------------------------
(* Properties of digest.py *)

Terminated == pc \in {"done", "crashed"}

\* C1: a failure while extracting jobs from one page, the call to the
\* text-generation service failing or its reply not parsing, does not end the
\* run: the page contributes no jobs and the run goes on.
C1_ExtractionFailureNonFatal ==
    \A k \in 1..Len(extracted) :
        extracted[k].reply.kind \in {"api_error", "invalid"} =>
            /\ extracted[k].jobs = <<>>
            /\ raised # "extract"

\* The part of C1 the code keeps: a reply that does not parse contributes no
\* jobs and the loop moves to the next page.
C1_ParseFailureReached ==
    /\ pc = "done"
    /\ \E k \in 1..Len(extracted) : extracted[k].reply.kind = "invalid"

CompanyOf(job) == IF "company" \in DOMAIN job.v THEN job.v.company ELSE Unknown

\* a sorts before b by code points: they differ first at k with a[k] < b[k],
\* or a is a proper prefix of b.
CodePointBefore(a, b) ==
    \E k \in 1..(Len(b)) :
        /\ k <= Len(a) + 1
        /\ \A m \in 1..(k - 1) : a[m] = b[m]
        /\ (k = Len(a) + 1 \/ a[k] < b[k])

CompanyLines == SelectSeq(html_content, LAMBDA l : l.kind = "company")
TitleLines == SelectSeq(html_content, LAMBDA l : l.kind = "title")
GroupedJobs == Flatten([g \in 1..Len(groups) |-> groups[g].jobs])

C6_ArrayOrEmpty ==
    pc = "parsed" =>
        /\ extracted[1].reply.kind = "array" =>
              extracted[1].jobs = extracted[1].reply.payload
        /\ extracted[1].reply.kind \in {"invalid", "not_array"} =>
              extracted[1].jobs = <<>>
        /\ raised = "no"

C6_Witness ==
    /\ pc = "parsed"
    /\ extracted[1].reply.kind = "array"
    /\ Len(extracted[1].jobs) = 2
    /\ extracted[1].jobs[1].type = "num"
    /\ extracted[1].reply.response.content[1][1] = FenceJson

\* The fixed digest of a run that found nothing, built on date d.
NoRolesDigest(d) ==
    << Line("heading", "Job Digest", <<>>, d, 0), Blank,
       Line("text", "No matching Senior PM or Principal PM roles found today.", <<>>, 0, 0),
       Blank, Footer >>

\* The run got as far as send_email.
ReachedSend ==
    \/ pc \in {"send", "send_service", "send_submit", "done"}
    \/ pc = "crashed" /\ raised \in {"credentials", "service", "send"}

\* C7 as stated: a run whose accumulated job list is empty performs exactly
\* one mail submission, of the fixed message with job count 0.
C7_EmptyRunSubmitsOnce ==
    (Terminated /\ ReachedSend /\ all_jobs = <<>>) =>
        /\ Len(submissions) = 1
        /\ \E d \in 1..MaxDay : submissions[1].body = NoRolesDigest(d)
        /\ submissions[1].subject.job_count = 0

EmptyDigestState ==
    (ReachedSend /\ all_jobs = <<>>) =>
        /\ \E d \in 1..day : html_content = NoRolesDigest(d)
        /\ \A k \in 1..Len(submissions) :
              /\ submissions[k].body = html_content
              /\ submissions[k].subject.job_count = 0
        /\ Terminated =>
              Len(submissions) = IF raised \in {"no", "send"} THEN 1 ELSE 0

\* C7 amended: a run that reaches send_email with an empty accumulated job
\* list has built the fixed "no roles found" message with the date of the
\* moment it was built; it submits that message, with job count 0, exactly
\* once if the credential bundle loads and the mail service client is built,
\* and submits nothing otherwise.
C7_EmptyDigest ==
    /\ []EmptyDigestState
    /\ [][(pc = "extract" /\ pc' = "send" /\ all_jobs = <<>>)
             => html_content' = NoRolesDigest(day)]_vars

C7_Witness ==
    /\ pc = "done"
    /\ all_jobs = <<>>
    /\ Len(scraped_pages) >= 1
    /\ Len(submissions) = 1
    /\ submissions[1].body = NoRolesDigest(day)

\* C8: a failure to load the credential bundle ends the run before any
\* submission; a failed submission ends the run and is not retried; the send
\* operation of the mail service is invoked at most once in a run.
C8_AtMostOneSubmission ==
    /\ Len(submissions) <= 1
    /\ creds = None => submissions = <<>>
    /\ raised = "credentials" => (pc = "crashed" /\ submissions = <<>>)
    /\ raised = "send" => (pc = "crashed" /\ Len(submissions) = 1)

C8_Witness ==
    /\ pc = "crashed"
    /\ raised = "send"
    /\ Len(submissions) = 1

====
